---- MODULE Spec2Model ----
(***************************************************************************)
(* helix-daemon: the session multiplexer (hxd server, its session tasks,   *)
(* the message channel over a SOCK_SEQPACKET socket, and the hxc client).  *)
(*                                                                         *)
(* Messages are modelled at the byte level: bincode 1.x with fixed-width   *)
(* little-endian integers, u32 variant tags, and trailing bytes accepted   *)
(* by bincode::deserialize.  Every channel end keeps its 1024-byte scratch *)
(* buffer and the write position of its cursor, as Channel does.           *)
(***************************************************************************)
EXTENDS Integers, Sequences, FiniteSets, TLC

\* ---------------------------------------------------------------- bounds
\* number of requests from outside during one daemon lifetime: the client
\* connections, and the signal to the server if one comes
MaxConn == 3
\* number of NewSession requests made during one daemon lifetime
MaxSid == 2
\* number of sessions still alive when a signal finds the daemon under load
MaxLive == 2
\* the kill requests that arrive while the daemon is under load
MaxKill == 4
\* size of the largest registry whose iteration is taken in every order
MaxScan == 3
\* number of sessions registered when a listing is asked for
MaxList == 40
\* length of the longest alias a session was given
MaxAlias == 1000

\* ------------------------------------------------------ program constants
BufCap == 1024
EventCap == 10
TxCap == 2

Conns == 1..MaxConn
Sids == 1..MaxSid

\* ------------------------------------------------------------ byte helpers
Max(a, b) == IF a >= b THEN a ELSE b

\* a buffer is the sequence of its bytes up to the last one ever written;
\* the array is zero-initialised, so every byte beyond is 0
ByteAt(buf, i) == IF i <= Len(buf) THEN buf[i] ELSE 0

\* buf[..n]
Prefix(buf, n) == [i \in 1..n |-> ByteAt(buf, i)]

\* copy bytes into buf starting at offset pos (0-based)
WriteAt(buf, pos, bytes) ==
  [i \in 1..Max(Len(buf), pos + Len(bytes)) |->
     IF i > pos /\ i <= pos + Len(bytes) THEN bytes[i - pos] ELSE ByteAt(buf, i)]

\* bincode fixint little-endian
U32(n) == <<n % 256, (n \div 256) % 256, (n \div 65536) % 256, (n \div 16777216) % 256>>
U64(n) == U32(n) \o <<0, 0, 0, 0>>
\* the ids and tags of the model fit in three bytes; any larger value is read
\* as one number that names no variant and no session
ReadU32(b, off) ==
  IF b[off + 4] = 0
  THEN b[off + 1] + 256 * b[off + 2] + 65536 * b[off + 3]
  ELSE 2147483647
ReadU64(b, off) ==
  IF ReadU32(b, off + 4) = 0 THEN ReadU32(b, off) ELSE 2147483647
EncBool(v) == IF v THEN <<1>> ELSE <<0>>
\* serde str: u64 length, then the bytes
EncStr(s) == U64(Len(s)) \o s

\* ------------------------------------------------------------------ proto
NoAlias == <<>>
Req(t, sid, force, alias) == [t |-> t, sid |-> sid, force |-> force, alias |-> alias]
ReqNewSession == Req("NewSession", 0, FALSE, NoAlias)
ReqAttachSession(sid) == Req("AttachSession", sid, FALSE, NoAlias)
ReqKillSession(sid, force) == Req("KillSession", sid, force, NoAlias)
ReqKillSessionByAlias(alias, force) == Req("KillSessionByAlias", 0, force, alias)
ReqAttachSessionByAlias(alias) == Req("AttachSessionByAlias", 0, FALSE, alias)
ReqAliasSession(sid, alias) == Req("AliasSession", sid, FALSE, alias)
ReqListSessions == Req("ListSessions", 0, FALSE, NoAlias)
ReqStopServer(force) == Req("StopServer", 0, force, NoAlias)
NoReq == Req("none", 0, FALSE, NoAlias)

Rsp(t, sid) == [t |-> t, sid |-> sid, list |-> <<>>]
RspNewSession(sid) == Rsp("NewSession", sid)
\* list: a sequence of (sid, timestamp, alias) triples
RspListSessions(list) == [t |-> "ListSessions", sid |-> 0, list |-> list]
Triple(sid, ts, alias) == [sid |-> sid, ts |-> ts, alias |-> alias]
\* std::time::SystemTime as serde sees it: secs_since_epoch, nanos_since_epoch
SystemTime(secs, nanos) == [secs |-> secs, nanos |-> nanos]
RspOk == Rsp("Ok", 0)
RspErr == Rsp("Err", 0)

SReq(t) == [t |-> t, sid |-> 0]
SRsp(t, forced) == [t |-> t, forced |-> forced]
SRspTerminated(forced) == SRsp("Terminated", forced)

\* bincode::serialize of a Request
EncRequest(r) ==
  CASE r.t = "NewSession" -> U32(0)
    [] r.t = "AttachSession" -> U32(1) \o U64(r.sid)
    [] r.t = "AttachSessionByAlias" -> U32(2) \o EncStr(r.alias)
    [] r.t = "KillSession" -> U32(3) \o U64(r.sid) \o EncBool(r.force)
    [] r.t = "KillSessionByAlias" -> U32(4) \o EncStr(r.alias) \o EncBool(r.force)
    [] r.t = "AliasSession" -> U32(5) \o U64(r.sid) \o EncStr(r.alias)
    [] r.t = "ListSessions" -> U32(6)
    [] r.t = "StopServer" -> U32(7) \o EncBool(r.force)

\* bincode::serialize of a (SessionId, SystemTime, Str) triple
EncTriple(e) == U64(e.sid) \o U64(e.ts.secs) \o U32(e.ts.nanos) \o EncStr(e.alias)

\* bincode::serialize of the elements of a Vec of triples
RECURSIVE EncTriples(_)
EncTriples(list) ==
  IF list = <<>> THEN <<>> ELSE EncTriple(Head(list)) \o EncTriples(Tail(list))

\* bincode::serialize of a Response
EncResponse(r) ==
  CASE r.t = "NewSession" -> U32(0) \o U64(r.sid)
    [] r.t = "ListSessions" -> U32(1) \o U64(Len(r.list)) \o EncTriples(r.list)
    [] r.t = "Ok" -> U32(2)
    [] r.t = "Err" -> U32(3)

\* bincode::serialize of a SessionRequest
EncSessionRequest(r) ==
  CASE r.t = "Terminate" -> U32(0)
    [] r.t = "Detach" -> U32(1)

\* bincode::serialize of a SessionResponse
EncSessionResponse(r) ==
  CASE r.t = "Terminated" -> U32(0) \o EncBool(r.forced)
    [] r.t = "Err" -> U32(1)
    [] r.t = "Ok" -> U32(2)

\* a decoding result: the value, or a deserialisation error
DecOk(v) == [ok |-> TRUE, v |-> v]
DecFail(v) == [ok |-> FALSE, v |-> v]
Has(b, off, n) == Len(b) >= off + n
ValidBool(b, off) == Has(b, off, 1) /\ b[off + 1] \in {0, 1}

\* bincode::deserialize::<Request>: reads the tag and the fields, ignores the rest
DecRequest(b) ==
  IF ~Has(b, 0, 4) THEN DecFail(NoReq)
  ELSE LET tag == ReadU32(b, 0) IN
    CASE tag = 0 -> DecOk(ReqNewSession)
      [] tag = 1 -> IF Has(b, 4, 8) THEN DecOk(ReqAttachSession(ReadU64(b, 4)))
                    ELSE DecFail(NoReq)
      [] tag = 2 -> IF Has(b, 4, 8) /\ Has(b, 12, ReadU64(b, 4))
                    THEN DecOk(ReqAttachSessionByAlias(SubSeq(b, 13, 12 + ReadU64(b, 4))))
                    ELSE DecFail(NoReq)
      [] tag = 3 -> IF Has(b, 4, 8) /\ ValidBool(b, 12)
                    THEN DecOk(ReqKillSession(ReadU64(b, 4), b[13] = 1))
                    ELSE DecFail(NoReq)
      [] tag = 4 -> IF Has(b, 4, 8) /\ Has(b, 12, ReadU64(b, 4))
                       /\ ValidBool(b, 12 + ReadU64(b, 4))
                    THEN LET n == ReadU64(b, 4) IN
                         DecOk(ReqKillSessionByAlias(SubSeq(b, 13, 12 + n), b[13 + n] = 1))
                    ELSE DecFail(NoReq)
      [] tag = 5 -> IF Has(b, 4, 16) /\ Has(b, 20, ReadU64(b, 12))
                    THEN DecOk(ReqAliasSession(ReadU64(b, 4),
                                               SubSeq(b, 21, 20 + ReadU64(b, 12))))
                    ELSE DecFail(NoReq)
      [] tag = 6 -> DecOk(ReqListSessions)
      [] tag = 7 -> IF ValidBool(b, 4) THEN DecOk(ReqStopServer(b[5] = 1))
                    ELSE DecFail(NoReq)
      [] OTHER -> DecFail(NoReq)

\* bincode::deserialize::<Response>
\* bincode::deserialize of n triples that start at offset off of b:
\* [ok, v: the triples read]
RECURSIVE DecTriples(_, _, _)
DecTriples(b, off, n) ==
  IF n = 0 THEN DecOk(<<>>)
  ELSE IF ~(Has(b, off, 28) /\ Has(b, off + 28, ReadU64(b, off + 20)))
  THEN DecFail(<<>>)
  ELSE LET len == ReadU64(b, off + 20)
           e == Triple(ReadU64(b, off),
                       SystemTime(ReadU64(b, off + 8), ReadU32(b, off + 16)),
                       SubSeq(b, off + 29, off + 28 + len))
           rest == DecTriples(b, off + 28 + len, n - 1)
       IN IF rest.ok THEN DecOk(<<e>> \o rest.v) ELSE DecFail(<<>>)

DecResponse(b) ==
  IF ~Has(b, 0, 4) THEN DecFail(RspErr)
  ELSE LET tag == ReadU32(b, 0) IN
    CASE tag = 0 -> IF Has(b, 4, 8) THEN DecOk(RspNewSession(ReadU64(b, 4)))
                    ELSE DecFail(RspErr)
      [] tag = 1 -> IF Has(b, 4, 8) /\ DecTriples(b, 12, ReadU64(b, 4)).ok
                    THEN DecOk(RspListSessions(DecTriples(b, 12, ReadU64(b, 4)).v))
                    ELSE DecFail(RspErr)
      [] tag = 2 -> DecOk(RspOk)
      [] tag = 3 -> DecOk(RspErr)
      [] OTHER -> DecFail(RspErr)

\* bincode::deserialize::<SessionRequest>
DecSessionRequest(b) ==
  IF ~Has(b, 0, 4) THEN DecFail(SReq("none"))
  ELSE LET tag == ReadU32(b, 0) IN
    CASE tag = 0 -> DecOk(SReq("Terminate"))
      [] tag = 1 -> DecOk(SReq("Detach"))
      [] OTHER -> DecFail(SReq("none"))

\* bincode::deserialize::<SessionResponse>
DecSessionResponse(b) ==
  IF ~Has(b, 0, 4) THEN DecFail(SRsp("none", FALSE))
  ELSE LET tag == ReadU32(b, 0) IN
    CASE tag = 0 -> IF ValidBool(b, 4) THEN DecOk(SRspTerminated(b[5] = 1))
                    ELSE DecFail(SRsp("none", FALSE))
      [] tag = 1 -> DecOk(SRsp("Err", FALSE))
      [] tag = 2 -> DecOk(SRsp("Ok", FALSE))
      [] OTHER -> DecFail(SRsp("none", FALSE))

\* ---------------------------------------------------------------- Channel
\* Channel::new: a zeroed buffer, the cursor at 0
NewBuf == <<>>

\* Channel::send up to the socket write: serialize_into writes at the cursor
\* and advances it; the datagram is buf[..position]
ChannelSend(buf, pos, bytes) ==
  IF pos + Len(bytes) > BufCap
  THEN [ok |-> FALSE, buf |-> WriteAt(buf, pos, SubSeq(bytes, 1, BufCap - pos)),
        pos |-> BufCap, out |-> <<>>]
  ELSE [ok |-> TRUE, buf |-> WriteAt(buf, pos, bytes),
        pos |-> pos + Len(bytes),
        out |-> Prefix(WriteAt(buf, pos, bytes), pos + Len(bytes))]

\* conn.recv(buf.get_mut()): the datagram lands at the start of the buffer,
\* the cursor is not touched
ChannelRecv(buf, bytes) == WriteAt(buf, 0, bytes)


\* ------------------------------------------------------- DetachableChannel
\* the state of a DetachableChannel: inner names the connection whose socket
\* the inner Channel wraps (0: None), permit is the stored wakeup of
\* attach_notify
NoConn == 0
Detachable(inner, detaching, permit) ==
  [inner |-> inner, detaching |-> detaching, permit |-> permit]

\* Channel::into_detachable
IntoDetachable(c) == Detachable(c, FALSE, FALSE)

\* DetachableChannel::is_attached
IsAttached(ch) == ch.inner # NoConn

\* DetachableChannel::detach
Detach(ch) == [ch EXCEPT !.detaching = TRUE]

\* DetachableChannel::shutdown: takes the inner channel; the flag is set only
\* when there was one
Shutdown(ch) ==
  IF ch.inner # NoConn THEN [ch EXCEPT !.inner = NoConn, !.detaching = TRUE] ELSE ch

\* an attach that replaces the inner channel
AttachOverwrite(ch, c) ==
  [ok |-> TRUE, ch |-> [ch EXCEPT !.inner = c, !.permit = TRUE]]

\* DetachableChannel::attach on a channel that holds no waiter: the permit of
\* notify_one is stored
Attach(ch, c) ==
  IF ch.inner # NoConn THEN [ok |-> FALSE, ch |-> ch]
  ELSE [ok |-> TRUE, ch |-> [ch EXCEPT !.inner = c, !.permit = TRUE]]

\* DetachableChannel::recv, the Ok(0) arm: the peer has closed
RecvClosed(ch) ==
  LET sh == Shutdown(ch) IN
  IF sh.detaching THEN [out |-> "None", ch |-> [sh EXCEPT !.detaching = FALSE]]
  ELSE [out |-> "Err", ch |-> sh]

\* ------------------------------------------------------------------ state
VARIABLES
  next_sid,   \* Server.next_sid
  sessions,   \* Server.sessions: sid -> SessionHandle (alias, detached)
  srv,        \* where the server's main task is, and the locals of the handler it is in
  events,     \* the session -> server mpsc channel (Server.events)
  listen,     \* connections made and not yet accepted
  sig,        \* a SIGINT/SIGTERM has been delivered to the server
  sockfile,   \* the socket file exists
  task,       \* the session tasks: state, channel, rx queue, result
              \* (history: obs, got, cause)
  conn,       \* the client connections: both socket ends, both channels, the client;
              \* held/hsid: who holds the server's end (history: reply, handled,
              \* was_inner, acc: how handle_connection's recv ended, nrsp: the
              \* control responses handle_connection sent)
  hist        \* history: the sids allocated, the sessions spawned, the Terminated
              \* events consumed and the expected flag seen, the sessions that were
              \* sent a forced RequestTermination, what the iteration of the
              \* registry yielded to the last attach by alias, the StopServer
              \* that was honoured

vars == <<next_sid, sessions, srv, events, listen, sig, sockfile, task, conn, hist>>

\* a datagram in flight: its bytes, and (history) the message send() was given
Dgram(ty, bytes, msg) == [ty |-> ty, bytes |-> bytes, msg |-> msg]

\* SessionHandle as Session::spawn makes it
\* the reading of the clock at spawn: the daemon only passes it on, and the
\* clock of the model stands still
Now == SystemTime(1, 0)
NewHandle == [alias |-> NoAlias, detached |-> FALSE, timestamp |-> Now]

\* what a recv that saw the peer close found and returned (history)
Obs(det, out, left) == [det |-> det, out |-> out, left |-> left]
NoObs == Obs(FALSE, "none", NoConn)

NoTask ==
  [st |-> "none", ch |-> Detachable(NoConn, FALSE, FALSE), rx |-> <<>>, result |-> "none",
   obs |-> NoObs, got |-> "none", cause |-> "none"]

IdleConn ==
  [req |-> NoReq, cpc |-> "idle", status |-> "none", csid |-> 0,
   cch |-> Detachable(NoConn, FALSE, FALSE), cbuf |-> NewBuf, cpos |-> 0,
   copen |-> FALSE, sopen |-> FALSE, c2s |-> <<>>, s2c |-> <<>>,
   sbuf |-> NewBuf, spos |-> 0, held |-> "none", hsid |-> 0, reply |-> "none",
   handled |-> FALSE, was_inner |-> FALSE, acc |-> "no", nrsp |-> 0]

SrvAt(pc, c, sid, force, todo) ==
  [pc |-> pc, c |-> c, sid |-> sid, force |-> force, todo |-> todo]
SrvSelect == SrvAt("select", 0, 0, FALSE, {})

NoHist ==
  [alloc |-> <<>>,
   spawned |-> [s \in Sids |-> 0],
   consumed |-> [s \in Sids |-> 0],
   seen |-> [s \in Sids |-> "none"],
   forced |-> [s \in Sids |-> FALSE],
   scan |-> <<>>,
   stop |-> "none"]

Init ==
  /\ next_sid = 0
  /\ sessions = [s \in {} |-> NewHandle]
  /\ srv = SrvSelect
  /\ events = <<>>
  /\ listen = <<>>
  /\ sig = FALSE
  /\ sockfile = TRUE
  /\ task = [s \in Sids |-> NoTask]
  /\ conn = [c \in Conns |-> IdleConn]
  /\ hist = NoHist

ServerAlive == srv.pc \notin {"exited", "panicked"}

\* -------------------------------------------------------------- socket ends
\* a shutdown that leaves the socket as it is
CloseSLeak(cn, c) == cn
\* the server end is shut down or dropped: what the client sent is discarded
CloseS(cn, c) == [cn EXCEPT ![c].sopen = FALSE, ![c].c2s = <<>>, ![c].held = "closed"]
\* the client end is shut down, or the client process is gone
CloseC(cn, c) == [cn EXCEPT ![c].copen = FALSE, ![c].s2c = <<>>]

\* ----------------------------------------------------------------- client
IsSessionReq(r) == r.t \in {"NewSession", "AttachSession", "AttachSessionByAlias"}

\* the names given to --kill: the empty one, which is the alias of every
\* session that was never aliased, and one that no session has
Aliases == {NoAlias, <<119>>}

\* what an invocation of the client can ask for
ClientRequests ==
  {ReqNewSession} \cup {ReqAttachSession(s) : s \in Sids}
    \cup {ReqKillSession(s, f) : s \in Sids, f \in BOOLEAN}
    \cup {ReqKillSessionByAlias(a, f) : a \in Aliases, f \in BOOLEAN}
    \cup {ReqStopServer(f) : f \in BOOLEAN}

\* the client process ends: its socket is closed with it
ClientExit(cn, c, status) ==
  [CloseC(cn, c) EXCEPT ![c].cpc = "exit", ![c].status = status]

\* Client::connect, then the send of the control request that every command
\* starts with.  Connections made once the signal is pending are never
\* accepted and are left out.
ClientConnect(c, req) ==
  /\ ServerAlive
  /\ ~sig
  /\ conn[c].cpc = "idle"
  /\ \A d \in Conns : d < c => conn[d].cpc # "idle"
  /\ req.t = "NewSession" =>
       Cardinality({d \in Conns : conn[d].req.t = "NewSession"}) < MaxSid
  /\ LET snd == ChannelSend(NewBuf, 0, EncRequest(req)) IN
     conn' = [conn EXCEPT ![c] =
                [@ EXCEPT !.req = req, !.cpc = "wait",
                          !.cbuf = snd.buf, !.cpos = snd.pos,
                          !.copen = TRUE, !.sopen = TRUE,
                          !.c2s = <<Dgram("Request", snd.out, req)>>,
                          !.held = "backlog"]]
  /\ listen' = Append(listen, c)
  /\ UNCHANGED <<next_sid, sessions, srv, events, sig, sockfile, task, hist>>

\* Client::connect by a process that ends before it sends its request
PeerConnectClose(c) ==
  /\ ServerAlive
  /\ ~sig
  /\ conn[c].cpc = "idle"
  /\ \A d \in Conns : d < c => conn[d].cpc # "idle"
  /\ conn' = [conn EXCEPT ![c] =
                [@ EXCEPT !.cpc = "exit", !.status = "killed", !.held = "backlog"]]
  /\ listen' = Append(listen, c)
  /\ UNCHANGED <<next_sid, sessions, srv, events, sig, sockfile, task, hist>>

\* the recv of the control response: start_session, attach_session,
\* kill_session, stop_server
ClientRecvResponse(c) ==
  /\ conn[c].cpc = "wait"
  /\ conn[c].s2c # <<>> \/ ~conn[c].sopen
  /\ LET got == conn[c].s2c # <<>>
         bytes == IF got THEN Head(conn[c].s2c).bytes ELSE <<>>
         d == DecResponse(bytes)
         cn1 == [conn EXCEPT ![c].cbuf = ChannelRecv(@, bytes),
                             ![c].s2c = IF got THEN Tail(@) ELSE @]
     IN conn' =
          IF IsSessionReq(conn[c].req)
          THEN IF d.ok /\ d.v.t = "NewSession"
               THEN [cn1 EXCEPT ![c].cpc = "session", ![c].csid = d.v.sid,
                                ![c].cch = IntoDetachable(c)]
               ELSE ClientExit(cn1, c, "err")
          ELSE IF d.ok /\ d.v.t = (IF conn[c].req.t = "ListSessions"
                                    THEN "ListSessions" ELSE "Ok")
               THEN ClientExit(cn1, c, "0")
               ELSE ClientExit(cn1, c, "err")
  /\ UNCHANGED <<next_sid, sessions, srv, events, listen, sig, sockfile, task, hist>>

\* SessionClient::run, the recv arm
ClientSessionRecv(c) ==
  /\ conn[c].cpc = "session"
  /\ IsAttached(conn[c].cch)
  /\ conn[c].s2c # <<>> \/ ~conn[c].sopen
  /\ IF conn[c].s2c # <<>>
     THEN LET bytes == Head(conn[c].s2c).bytes
              d == DecSessionResponse(bytes)
              cn1 == [conn EXCEPT ![c].cbuf = ChannelRecv(@, bytes), ![c].s2c = Tail(@)]
          IN conn' =
               IF ~d.ok THEN ClientExit(cn1, c, "err")
               ELSE IF d.v.t = "Terminated"
               THEN ClientExit([cn1 EXCEPT ![c].cch = Shutdown(@)], c,
                               IF d.v.forced THEN "1" ELSE "0")
               ELSE cn1
     ELSE LET r == RecvClosed(conn[c].cch) IN
          conn' =
            IF r.out = "None"
            THEN [CloseC(conn, c) EXCEPT ![c].cch = r.ch]
            ELSE ClientExit([conn EXCEPT ![c].cch = r.ch], c, "err")
  /\ UNCHANGED <<next_sid, sessions, srv, events, listen, sig, sockfile, task, hist>>

\* DetachableChannel::send of a SessionRequest from the client's end, up to
\* the outcome of the socket write; pos is where the cursor stands
ClientSend(c, pos, msg) ==
  LET attached == IsAttached(conn[c].cch)
      snd == ChannelSend(conn[c].cbuf, pos, EncSessionRequest(msg))
      sent == attached /\ snd.ok /\ conn[c].sopen
  IN [ok |-> sent,
      cn |-> IF ~attached THEN conn
             ELSE [conn EXCEPT ![c].cbuf = snd.buf, ![c].cpos = snd.pos,
                               ![c].c2s = IF sent
                                          THEN Append(@, Dgram("SessionRequest", snd.out, msg))
                                          ELSE @]]

\* SessionClient::run, the signal arm: handle_signal
ClientSignal(c) ==
  /\ conn[c].cpc = "session"
  /\ LET s == ClientSend(c, conn[c].cpos, SReq("Terminate")) IN
     conn' = ClientExit(s.cn, c, IF s.ok THEN "signal" ELSE "err")
  /\ UNCHANGED <<next_sid, sessions, srv, events, listen, sig, sockfile, task, hist>>

\* SessionClient::detach
ClientDetach(c) ==
  /\ conn[c].cpc = "session"
  /\ LET s == ClientSend(c, conn[c].cpos, SReq("Detach")) IN
     conn' = IF s.ok
             THEN ClientExit([s.cn EXCEPT ![c].cch = Shutdown(@)], c, "detached")
             ELSE ClientExit(s.cn, c, "err")
  /\ UNCHANGED <<next_sid, sessions, srv, events, listen, sig, sockfile, task, hist>>

\* a peer that is not client.rs sends a datagram that is no SessionRequest
\* (variant index 2), then closes its socket
PeerBadRequest(c) ==
  /\ conn[c].cpc = "session"
  /\ IsAttached(conn[c].cch)
  /\ conn[c].sopen
  /\ ~DecSessionRequest(U32(2)).ok
  /\ conn' = ClientExit([conn EXCEPT ![c].c2s =
                           Append(@, Dgram("SessionRequest", U32(2), SReq("none"))),
                                     ![c].cch = Shutdown(@)], c, "killed")
  /\ UNCHANGED <<next_sid, sessions, srv, events, listen, sig, sockfile, task, hist>>

\* a peer that is not client.rs detaches: its datagram is the serialisation
\* of SessionRequest::Detach and nothing else (written at the start of its
\* buffer), then it closes its socket
PeerDetach(c) ==
  /\ conn[c].cpc = "session"
  /\ IsAttached(conn[c].cch)
  /\ conn[c].sopen
  /\ LET s == ClientSend(c, 0, SReq("Detach")) IN
     conn' = ClientExit([s.cn EXCEPT ![c].cch = Shutdown(@)], c, "detached")
  /\ UNCHANGED <<next_sid, sessions, srv, events, listen, sig, sockfile, task, hist>>

\* the client process is killed while its socket is open
ClientAbort(c) ==
  /\ conn[c].cpc \in {"wait", "session"}
  /\ conn[c].copen
  /\ conn' = ClientExit(conn, c, "killed")
  /\ UNCHANGED <<next_sid, sessions, srv, events, listen, sig, sockfile, task, hist>>


\* ----------------------------------------------------------------- server
EmptyRegistry == [s \in {} |-> NewHandle]

\* an insert that loses the handle
InsertLost(reg, sid, h) == reg

\* self.sessions.insert(sid, handle)
Insert(reg, sid, h) == [s \in DOMAIN reg \cup {sid} |-> IF s = sid THEN h ELSE reg[s]]

\* a remove that leaves the entry in place
RemoveNothing(reg, sid) == reg
\* self.sessions.remove(&sid)
Remove(reg, sid) == [s \in DOMAIN reg \ {sid} |-> reg[s]]

\* ServerEvent
RequestTermination(forced) == [t |-> "RequestTermination", forced |-> forced, c |-> NoConn]
AttachRequest(c) == [t |-> "AttachRequest", forced |-> FALSE, c |-> c]

\* SessionEvent
Terminated(sid, expected) == [sid |-> sid, kind |-> "Terminated", expected |-> expected]
ClientDetached(sid) == [sid |-> sid, kind |-> "ClientDetached", expected |-> FALSE]

\* the receiver of a session's ServerEvent channel lives as long as the task
TxOpen(s) == task[s].st \in {"run", "sending"}
\* SessionHandle.tx.send(..).await returns: the receiver is gone, or there is room
TxReady(s) == ~TxOpen(s) \/ Len(task[s].rx) < TxCap

\* a terminate whose request never reaches the queue
SendTerminationLost(s, forced) ==
  /\ task' = task
  /\ hist' = hist

\* SessionHandle::terminate(forced) on the handle of session s, once the
\* send has returned: the request is in the queue if the receiver is alive
SendTermination(s, forced) ==
  /\ task' = IF TxOpen(s)
             THEN [task EXCEPT ![s].rx = Append(@, RequestTermination(forced))]
             ELSE task
  /\ hist' = IF TxOpen(s) /\ forced THEN [hist EXCEPT !.forced[s] = TRUE] ELSE hist

\* a next_sid that is bumped for the first session only
AllocSidStuck(n) == IF n = 0 THEN 1 ELSE n

\* the next session id: self.next_sid += 1
AllocSid(n) == n + 1

\* channel.send(&response) on the server's end of connection c: the bytes
\* leave if the serialisation fits and the client's end is still open
ServerSend(cn, c, rsp) ==
  LET snd == ChannelSend(cn[c].sbuf, cn[c].spos, EncResponse(rsp))
      sent == snd.ok /\ cn[c].copen
  IN [ok |-> sent,
      cn |-> [cn EXCEPT ![c].sbuf = snd.buf, ![c].spos = snd.pos, ![c].reply = rsp.t,
                        ![c].nrsp = @ + 1,
                        ![c].s2c = IF sent THEN Append(@, Dgram("Response", snd.out, rsp))
                                   ELSE @]]

\* an accept arm that is taken whether or not a signal is pending
AcceptedUnbiased(c) ==
  /\ srv.pc = "select"
  /\ listen # <<>>
  /\ c = Head(listen)
  /\ conn[c].c2s # <<>>
  /\ DecRequest(Head(conn[c].c2s).bytes).ok

\* Server::run takes the accept arm (no signal is pending) and
\* handle_connection receives the request on a new Channel
Accepted(c) ==
  /\ srv.pc = "select"
  /\ ~sig
  /\ listen # <<>>
  /\ c = Head(listen)
  /\ conn[c].c2s # <<>>
  /\ DecRequest(Head(conn[c].c2s).bytes).ok

Received(c) == DecRequest(Head(conn[c].c2s).bytes).v

AfterRecv(c) ==
  [conn EXCEPT ![c].sbuf = ChannelRecv(NewBuf, Head(conn[c].c2s).bytes),
               ![c].spos = 0, ![c].c2s = Tail(@), ![c].held = "server",
               ![c].acc = "req"]

\* handle_connection, the Err arm of its recv: the peer closed without a
\* request (a read of 0 bytes does not deserialize); the channel is shut
\* down and nothing is sent
SrvRecvError(c) ==
  /\ srv.pc = "select"
  /\ ~sig
  /\ listen # <<>>
  /\ c = Head(listen)
  /\ conn[c].c2s = <<>>
  /\ ~conn[c].copen
  /\ ~DecRequest(<<>>).ok
  /\ conn' = [CloseS(conn, c) EXCEPT ![c].sbuf = ChannelRecv(NewBuf, <<>>),
                                     ![c].acc = "err"]
  /\ listen' = Tail(listen)
  /\ UNCHANGED <<next_sid, sessions, srv, events, sig, sockfile, task, hist>>

\* the process of the server is gone: its tasks with it, and every socket it held
TasksGone ==
  [s \in DOMAIN task |->
     IF task[s].st = "run"
     THEN [task[s] EXCEPT !.st = "cancelled", !.rx = <<>>, !.ch.inner = NoConn]
     ELSE task[s]]
SocketsGone(cn) ==
  [c \in DOMAIN cn |->
     IF cn[c].held = "none" THEN cn[c]
     ELSE [cn[c] EXCEPT !.sopen = FALSE, !.c2s = <<>>, !.held = "closed"]]

\* a cleanup that leaves the socket file where it is
CleanupSkipped(file) == file
\* Server::cleanup: the socket file is unlinked
Cleanup(file) == FALSE

\* handle_connection, Request::NewSession
SrvNewSession(c) ==
  /\ Accepted(c)
  /\ Received(c).t = "NewSession"
  /\ LET sid == AllocSid(next_sid)
         r == ServerSend(AfterRecv(c), c, RspNewSession(sid))
     IN /\ next_sid' = sid
        /\ IF r.ok
           THEN /\ conn' = [r.cn EXCEPT ![c].held = "session", ![c].hsid = sid,
                                         ![c].was_inner = TRUE]
                /\ task' = [task EXCEPT ![sid] =
                              [NoTask EXCEPT !.st = "run", !.ch = IntoDetachable(c)]]
                /\ sessions' = Insert(sessions, sid, NewHandle)
                /\ hist' = [hist EXCEPT !.alloc = Append(@, sid),
                                        !.spawned[sid] = @ + 1]
           ELSE /\ conn' = CloseS(r.cn, c)
                /\ hist' = [hist EXCEPT !.alloc = Append(@, sid)]
                /\ UNCHANGED <<task, sessions>>
  /\ listen' = Tail(listen)
  /\ UNCHANGED <<srv, events, sig, sockfile>>

\* the match without its guard on is_detached
AttachLookupNoGuard(reg, sid) ==
  IF sid \notin DOMAIN reg THEN "absent" ELSE "free"

\* the match of the AttachSession arm on self.sessions.get_mut(&sid)
AttachLookup(reg, sid) ==
  IF sid \notin DOMAIN reg THEN "absent"
  ELSE IF ~reg[sid].detached THEN "occupied"
  ELSE "free"

\* handle_connection, Request::AttachSession, up to the await of
\* SessionHandle::attach
SrvAttachSession(c) ==
  /\ Accepted(c)
  /\ Received(c).t = "AttachSession"
  /\ LET sid == Received(c).sid IN
     IF AttachLookup(sessions, sid) # "free"
     THEN /\ conn' = CloseS(ServerSend(AfterRecv(c), c, RspErr).cn, c)
          /\ srv' = srv
     ELSE LET r == ServerSend(AfterRecv(c), c, RspNewSession(sid)) IN
          IF r.ok
          THEN /\ conn' = r.cn
               /\ srv' = SrvAt("attach", c, sid, FALSE, {})
          ELSE /\ conn' = CloseS(r.cn, c)
               /\ srv' = srv
  /\ listen' = Tail(listen)
  /\ UNCHANGED <<next_sid, sessions, events, sig, sockfile, task, hist>>

\* SessionHandle::attach: the send of AttachRequest returns
SrvAttachSend ==
  /\ srv.pc = "attach"
  /\ TxReady(srv.sid)
  /\ IF TxOpen(srv.sid)
     THEN /\ task' = [task EXCEPT ![srv.sid].rx = Append(@, AttachRequest(srv.c))]
          /\ sessions' = [sessions EXCEPT ![srv.sid].detached = FALSE]
          /\ conn' = [conn EXCEPT ![srv.c].held = "queue", ![srv.c].hsid = srv.sid]
     ELSE /\ conn' = CloseS(conn, srv.c)
          /\ UNCHANGED <<task, sessions>>
  /\ srv' = SrvSelect
  /\ UNCHANGED <<next_sid, events, listen, sig, sockfile, hist>>

\* handle_connection, Request::KillSession, up to the await of
\* SessionHandle::terminate
SrvKillSession(c) ==
  /\ Accepted(c)
  /\ Received(c).t = "KillSession"
  /\ IF Received(c).sid \in DOMAIN sessions
     THEN /\ conn' = AfterRecv(c)
          /\ srv' = SrvAt("kill", c, Received(c).sid, Received(c).force, {})
     ELSE /\ conn' = CloseS(ServerSend(AfterRecv(c), c, RspErr).cn, c)
          /\ srv' = srv
  /\ listen' = Tail(listen)
  /\ UNCHANGED <<next_sid, sessions, events, sig, sockfile, task, hist>>

\* the sids of S in ascending order
RECURSIVE Ascending(_)
Ascending(S) ==
  IF S = {} THEN <<>>
  ELSE LET m == CHOOSE x \in S : \A y \in S : x <= y IN <<m>> \o Ascending(S \ {m})

\* every order of the sids of S
RECURSIVE Orders(_)
Orders(S) ==
  IF S = {} THEN {<<>>}
  ELSE UNION {{<<x>> \o o : o \in Orders(S \ {x})} : x \in S}

\* HashMap::iter on the registry: the order is any order.  A registry of
\* more than MaxScan sessions is iterated in ascending order only.
IterOrders(reg) ==
  IF Cardinality(DOMAIN reg) <= MaxScan THEN Orders(DOMAIN reg)
  ELSE {Ascending(DOMAIN reg)}

\* what iter_mut yields in that order: the sid and the handle of each session
Scanned(order, reg) ==
  [i \in 1..Len(order) |->
     [sid |-> order[i], alias |-> reg[order[i]].alias, detached |-> reg[order[i]].detached]]

\* a scan that passes over the sessions that are not detached
FirstMatchDetached(order, reg, alias) ==
  LET hits == {i \in 1..Len(order) : reg[order[i]].alias = alias /\ reg[order[i]].detached}
  IN IF hits = {} THEN 0 ELSE order[CHOOSE i \in hits : \A j \in hits : i <= j]

\* the for loop of the by-alias arms: the first session of the iteration
\* whose alias is the one asked for (0: none)
FirstMatch(order, reg, alias) ==
  LET hits == {i \in 1..Len(order) : reg[order[i]].alias = alias}
  IN IF hits = {} THEN 0 ELSE order[CHOOSE i \in hits : \A j \in hits : i <= j]

\* handle_connection, Request::AttachSessionByAlias, up to the await of
\* SessionHandle::attach
SrvAttachByAlias(c) ==
  /\ Accepted(c)
  /\ Received(c).t = "AttachSessionByAlias"
  /\ \E order \in IterOrders(sessions) :
       LET m == FirstMatch(order, sessions, Received(c).alias) IN
       /\ hist' = [hist EXCEPT !.scan = Scanned(order, sessions)]
       /\ IF m = 0 \/ ~sessions[m].detached
          THEN /\ conn' = CloseS(ServerSend(AfterRecv(c), c, RspErr).cn, c)
               /\ srv' = srv
          ELSE LET r == ServerSend(AfterRecv(c), c, RspNewSession(m)) IN
               IF r.ok
               THEN /\ conn' = r.cn
                    /\ srv' = SrvAt("attach", c, m, FALSE, {})
               ELSE /\ conn' = CloseS(r.cn, c)
                    /\ srv' = srv
  /\ listen' = Tail(listen)
  /\ UNCHANGED <<next_sid, sessions, events, sig, sockfile, task>>

\* an alias arm that sets the alias of every session
SetAliasAll(reg, sid, alias) == [s \in DOMAIN reg |-> [reg[s] EXCEPT !.alias = alias]]

\* SessionHandle::set_alias on the entry of sid
SetAlias(reg, sid, alias) == [reg EXCEPT ![sid].alias = alias]

\* handle_connection, Request::AliasSession
SrvAliasSession(c) ==
  /\ Accepted(c)
  /\ Received(c).t = "AliasSession"
  /\ IF Received(c).sid \in DOMAIN sessions
     THEN /\ sessions' = SetAlias(sessions, Received(c).sid, Received(c).alias)
          /\ conn' = CloseS(ServerSend(AfterRecv(c), c, RspOk).cn, c)
     ELSE /\ sessions' = sessions
          /\ conn' = CloseS(ServerSend(AfterRecv(c), c, RspErr).cn, c)
  /\ listen' = Tail(listen)
  /\ UNCHANGED <<next_sid, srv, events, sig, sockfile, task, hist>>

\* the (sid, timestamp, alias) triples pushed by the for loop of the
\* ListSessions arm
Snapshot(order, reg) ==
  [i \in 1..Len(order) |-> Triple(order[i], reg[order[i]].timestamp, reg[order[i]].alias)]

\* handle_connection, Request::ListSessions
SrvListSessions(c) ==
  /\ Accepted(c)
  /\ Received(c).t = "ListSessions"
  /\ \E order \in IterOrders(sessions) :
       conn' = CloseS(ServerSend(AfterRecv(c), c,
                                 RspListSessions(Snapshot(order, sessions))).cn, c)
  /\ listen' = Tail(listen)
  /\ UNCHANGED <<next_sid, sessions, srv, events, sig, sockfile, task, hist>>

\* handle_connection, Request::KillSessionByAlias, up to the await of
\* SessionHandle::terminate: the first session of the iteration whose alias
\* matches (the order of a HashMap's iteration is any order)
SrvKillByAlias(c) ==
  /\ Accepted(c)
  /\ Received(c).t = "KillSessionByAlias"
  /\ LET found == {s \in DOMAIN sessions : sessions[s].alias = Received(c).alias} IN
     IF found # {}
     THEN \E s \in found :
            /\ conn' = AfterRecv(c)
            /\ srv' = SrvAt("kill", c, s, Received(c).force, {})
     ELSE /\ conn' = CloseS(ServerSend(AfterRecv(c), c, RspErr).cn, c)
          /\ srv' = srv
  /\ listen' = Tail(listen)
  /\ UNCHANGED <<next_sid, sessions, events, sig, sockfile, task, hist>>

\* a reply that is Ok whatever became of the request
KillReplyOk(sent) == RspOk
\* the reply of the kill arms: Ok if session.terminate(force) returned Ok
KillReply(sent) == IF sent THEN RspOk ELSE RspErr

\* SessionHandle::terminate returns to the kill arm: the reply, the shutdown
SrvKillSend ==
  /\ srv.pc = "kill"
  /\ TxReady(srv.sid)
  /\ SendTermination(srv.sid, srv.force)
  /\ conn' = CloseS(ServerSend(conn, srv.c, KillReply(TxOpen(srv.sid))).cn, srv.c)
  /\ srv' = SrvSelect
  /\ UNCHANGED <<next_sid, sessions, events, listen, sig, sockfile>>

\* handle_connection, Request::StopServer: the registry is drained
SrvStopServer(c) ==
  /\ Accepted(c)
  /\ Received(c).t = "StopServer"
  /\ conn' = AfterRecv(c)
  /\ srv' = SrvAt("stop", c, 0, Received(c).force, DOMAIN sessions)
  /\ sessions' = EmptyRegistry
  /\ listen' = Tail(listen)
  /\ hist' = [hist EXCEPT !.stop = IF Received(c).force THEN "forced" ELSE "graceful"]
  /\ UNCHANGED <<next_sid, events, sig, sockfile, task>>

\* the StopServer loop: one drained session is sent its termination request
SrvStopSend(s) ==
  /\ srv.pc = "stop"
  /\ s \in srv.todo
  /\ TxReady(s)
  /\ SendTermination(s, srv.force)
  /\ srv' = [srv EXCEPT !.todo = @ \ {s}]
  /\ UNCHANGED <<next_sid, sessions, events, listen, sig, sockfile, conn>>

\* the StopServer arm after its loop: the reply, the shutdown, run = false
SrvStopReply ==
  /\ srv.pc = "stop"
  /\ srv.todo = {}
  /\ conn' = CloseS(ServerSend(conn, srv.c, RspOk).cn, srv.c)
  /\ srv' = SrvAt("stopping", 0, 0, FALSE, {})
  /\ UNCHANGED <<next_sid, sessions, events, listen, sig, sockfile, task, hist>>

\* Server::run leaves its loop: cleanup, Ok(0), and the process exits
SrvExit ==
  /\ srv.pc = "stopping"
  /\ sockfile' = Cleanup(sockfile)
  /\ srv' = SrvAt("exited", 0, 0, FALSE, {})
  /\ task' = TasksGone
  /\ conn' = SocketsGone(conn)
  /\ listen' = <<>>
  /\ UNCHANGED <<next_sid, sessions, events, sig, hist>>

\* a SIGINT or SIGTERM reaches the server (between two of its handlers: one
\* that comes during a handler is seen at the next select all the same)
EnvSignal ==
  /\ ~sig
  /\ srv.pc = "select"
  /\ conn[MaxConn].cpc = "idle"
  /\ sig' = TRUE
  /\ UNCHANGED <<next_sid, sessions, srv, events, listen, sockfile, task, conn, hist>>

\* Server::run takes the signal arm: handle_signal drains the registry
SrvSignal ==
  /\ srv.pc = "select"
  /\ sig
  /\ srv' = SrvAt("sig_term", 0, 0, TRUE, DOMAIN sessions)
  /\ sessions' = EmptyRegistry
  /\ UNCHANGED <<next_sid, events, listen, sig, sockfile, task, conn, hist>>

\* handle_signal: session.terminate(true) returns
SrvSigTerminate(s) ==
  /\ srv.pc = "sig_term"
  /\ s \in srv.todo
  /\ TxReady(s)
  /\ SendTermination(s, TRUE)
  /\ srv' = [srv EXCEPT !.pc = "sig_join", !.sid = s]
  /\ UNCHANGED <<next_sid, sessions, events, listen, sig, sockfile, conn>>

\* handle_signal: session.join() returns once the task has finished
SrvSigJoin ==
  /\ srv.pc = "sig_join"
  /\ task[srv.sid].st = "done"
  /\ srv' = [srv EXCEPT !.pc = "sig_term", !.sid = 0, !.todo = @ \ {srv.sid}]
  /\ UNCHANGED <<next_sid, sessions, events, listen, sig, sockfile, task, conn, hist>>

\* handle_signal after its loop: cleanup, and the default action of the
\* signal ends the process
SrvSigExit ==
  /\ srv.pc = "sig_term"
  /\ srv.todo = {}
  /\ sockfile' = Cleanup(sockfile)
  /\ srv' = SrvAt("exited", 0, 0, FALSE, {})
  /\ task' = TasksGone
  /\ conn' = SocketsGone(conn)
  /\ listen' = <<>>
  /\ UNCHANGED <<next_sid, sessions, events, sig, hist>>

\* Server::run takes the event arm (no signal, no connection): handle_event.
\* An unwrap or assert that fails ends the process without cleanup.
SrvEvent ==
  /\ srv.pc = "select"
  /\ ~sig
  /\ listen = <<>>
  /\ events # <<>>
  /\ LET ev == Head(events)
         known == ev.sid \in DOMAIN sessions
         joined == task[ev.sid].result
         panics == \/ ~known
                   \/ ev.kind = "Terminated" /\ ev.expected /\ joined # "ok"
                   \/ ev.kind = "Terminated" /\ ~ev.expected /\ joined # "err"
     IN /\ sessions' =
             IF ~known THEN sessions
             ELSE IF ev.kind = "Terminated" THEN Remove(sessions, ev.sid)
             ELSE [sessions EXCEPT ![ev.sid].detached = TRUE]
        /\ hist' = IF ev.kind = "Terminated"
                   THEN [hist EXCEPT !.consumed[ev.sid] = @ + 1,
                                     !.seen[ev.sid] = IF ev.expected THEN "expected"
                                                      ELSE "unexpected"]
                   ELSE hist
        /\ IF panics
           THEN /\ srv' = SrvAt("panicked", 0, 0, FALSE, {})
                /\ task' = TasksGone
                /\ conn' = SocketsGone(conn)
           ELSE UNCHANGED <<srv, task, conn>>
  /\ events' = Tail(events)
  /\ UNCHANGED <<next_sid, listen, sig, sockfile>>


\* ---------------------------------------------------------------- session
\* a terminate that answers Terminated(expected)
TerminateSameFlag(expected, cn, ch) ==
  LET c == ch.inner
      snd == ChannelSend(cn[c].sbuf, cn[c].spos,
                         EncSessionResponse(SRspTerminated(expected)))
      sent == snd.ok /\ cn[c].copen
      cn1 == IF c = NoConn THEN cn
             ELSE [cn EXCEPT ![c].sbuf = snd.buf, ![c].spos = snd.pos,
                             ![c].s2c = IF sent
                                        THEN Append(@, Dgram("SessionResponse", snd.out,
                                                             SRspTerminated(expected)))
                                        ELSE @]
  IN [cn |-> IF c = NoConn THEN cn1 ELSE CloseS(cn1, c),
      ch |-> Shutdown(Detach(ch))]

\* Session::terminate up to send_event: the Terminated response (best
\* effort), detach, shutdown.  cn: the connections, ch: the task's channel.
Terminate(expected, cn, ch) ==
  LET c == ch.inner
      snd == ChannelSend(cn[c].sbuf, cn[c].spos,
                         EncSessionResponse(SRspTerminated(~expected)))
      sent == snd.ok /\ cn[c].copen
      cn1 == IF c = NoConn THEN cn
             ELSE [cn EXCEPT ![c].sbuf = snd.buf, ![c].spos = snd.pos,
                             ![c].s2c = IF sent
                                        THEN Append(@, Dgram("SessionResponse", snd.out,
                                                             SRspTerminated(~expected)))
                                        ELSE @]
  IN [cn |-> IF c = NoConn THEN cn1 ELSE CloseS(cn1, c),
      ch |-> Shutdown(Detach(ch))]

\* the task ends and its receiver is dropped: the channels of the
\* AttachRequests still queued are dropped with it
DropRx(cn, rx) ==
  [c \in DOMAIN cn |->
     IF \E i \in 1..Len(rx) : rx[i].t = "AttachRequest" /\ rx[i].c = c
     THEN CloseS(cn, c)[c] ELSE cn[c]]

\* a task whose future returns Ok whatever reason terminate was given
FinishOk(s, expected, cause, tk, t) ==
  /\ Len(events) < EventCap
  /\ events' = Append(events, Terminated(s, expected))
  /\ task' = [task EXCEPT ![s] =
                [tk EXCEPT !.st = "done", !.ch = t.ch, !.rx = <<>>,
                           !.result = "ok",
                           !.cause = cause]]
  /\ conn' = DropRx(t.cn, tk.rx)

\* Session::terminate from send_event on, and the return of Session::run.
\* tk: the task as the arm left it, t: what Terminate made of the channel.
Finish(s, expected, cause, tk, t) ==
  /\ Len(events) < EventCap
  /\ events' = Append(events, Terminated(s, expected))
  /\ task' = [task EXCEPT ![s] =
                [tk EXCEPT !.st = "done", !.ch = t.ch, !.rx = <<>>,
                           !.result = IF expected THEN "ok" ELSE "err",
                           !.cause = cause]]
  /\ conn' = DropRx(t.cn, tk.rx)

\* a handle_event without its first arm: attach is called on an occupied
\* channel too, and its error ends the task
HandleEventNoGuard(ch, c) ==
  LET a == Attach(ch, c) IN
  [out |-> IF a.ok THEN "attached" ELSE "error", ch |-> a.ch]

\* a handle_event that installs the offered channel without looking at
\* is_attached
HandleEventOverwrite(ch, c) ==
  [out |-> "attached", ch |-> [ch EXCEPT !.inner = c, !.permit = TRUE]]

\* Session::handle_event on AttachRequest(c)
HandleEvent(ch, c) ==
  IF IsAttached(ch) THEN [out |-> "refused", ch |-> ch]
  ELSE LET a == Attach(ch, c) IN
       [out |-> IF a.ok THEN "attached" ELSE "error", ch |-> a.ch]

\* Session::run, the arm of rx.recv(): a termination request, or handle_event
SessRx(s) ==
  /\ task[s].st = "run"
  /\ task[s].rx # <<>>
  /\ LET ev == Head(task[s].rx)
         tk == [task[s] EXCEPT !.rx = Tail(@)]
     IN IF ev.t = "RequestTermination"
        THEN Finish(s, ~ev.forced, "request", tk, Terminate(~ev.forced, conn, tk.ch))
        ELSE LET h == HandleEvent(tk.ch, ev.c)
                 cn1 == [conn EXCEPT ![ev.c].handled = TRUE]
             IN /\ events' = events
                /\ CASE h.out = "refused" ->
                          /\ conn' = CloseS(cn1, ev.c)
                          /\ task' = [task EXCEPT ![s] = tk]
                     [] h.out = "attached" ->
                          /\ conn' = [cn1 EXCEPT ![ev.c].held = "session",
                                                  ![ev.c].was_inner = TRUE]
                          /\ task' = [task EXCEPT ![s] = [tk EXCEPT !.ch = h.ch]]
                     [] h.out = "error" ->
                          /\ conn' = DropRx(CloseS(cn1, ev.c), tk.rx)
                          /\ task' = [task EXCEPT ![s] =
                                        [tk EXCEPT !.st = "done", !.rx = <<>>,
                                                   !.result = "err", !.cause = "error"]]
  /\ UNCHANGED <<next_sid, sessions, srv, listen, sig, sockfile, hist>>

\* Session::run, the arm of channel.recv() with an inner channel: a
\* datagram, or the close of the peer
SessRecv(s) ==
  /\ task[s].st = "run"
  /\ IsAttached(task[s].ch)
  /\ LET ch == task[s].ch
         c == ch.inner
     IN /\ conn[c].c2s # <<>> \/ ~conn[c].copen
        /\ IF conn[c].c2s # <<>>
           THEN LET bytes == Head(conn[c].c2s).bytes
                    d == DecSessionRequest(bytes)
                    cn1 == [conn EXCEPT ![c].sbuf = ChannelRecv(@, bytes),
                                        ![c].c2s = Tail(@)]
                    tk == [task[s] EXCEPT !.got = Head(conn[c].c2s).msg.t]
                IN IF ~d.ok
                   THEN Finish(s, FALSE, "error", tk, Terminate(FALSE, cn1, ch))
                   ELSE IF d.v.t = "Terminate"
                   THEN Finish(s, TRUE, "client", tk, Terminate(TRUE, cn1, ch))
                   ELSE /\ Len(events) < EventCap
                        /\ events' = Append(events, ClientDetached(s))
                        /\ task' = [task EXCEPT ![s] = [tk EXCEPT !.ch = Detach(ch)]]
                        /\ conn' = cn1
           ELSE LET r == RecvClosed(ch)
                    tk == [task[s] EXCEPT !.obs = Obs(ch.detaching, r.out, r.ch.inner)]
                IN IF r.out = "None"
                   THEN /\ task' = [task EXCEPT ![s] = [tk EXCEPT !.ch = r.ch]]
                        /\ conn' = CloseS(conn, c)
                        /\ events' = events
                   ELSE Finish(s, FALSE, "error", tk,
                               Terminate(FALSE, CloseS(conn, c), r.ch))
  /\ UNCHANGED <<next_sid, sessions, srv, listen, sig, sockfile, hist>>

\* Session::run, the arm of channel.recv() without an inner channel:
\* attach_notify.notified() takes the stored permit and recv returns None
SessNotified(s) ==
  /\ task[s].st = "run"
  /\ ~IsAttached(task[s].ch)
  /\ task[s].ch.permit
  /\ task' = [task EXCEPT ![s].ch.permit = FALSE]
  /\ UNCHANGED <<next_sid, sessions, srv, events, listen, sig, sockfile, conn, hist>>

\* ------------------------------------------------------------ the system
Next ==
  \/ \E c \in Conns, r \in ClientRequests : ClientConnect(c, r)
  \/ \E c \in Conns : PeerConnectClose(c)
  \/ \E c \in Conns : ClientRecvResponse(c)
  \/ \E c \in Conns : ClientSessionRecv(c)
  \/ \E c \in Conns : ClientSignal(c)
  \/ \E c \in Conns : ClientDetach(c)
  \/ \E c \in Conns : PeerDetach(c)
  \/ \E c \in Conns : PeerBadRequest(c)
  \/ \E c \in Conns : ClientAbort(c)
  \/ \E c \in Conns : SrvRecvError(c)
  \/ \E c \in Conns : SrvNewSession(c)
  \/ \E c \in Conns : SrvAttachSession(c)
  \/ SrvAttachSend
  \/ \E c \in Conns : SrvKillSession(c)
  \/ \E c \in Conns : SrvKillByAlias(c)
  \/ SrvKillSend
  \/ \E c \in Conns : SrvStopServer(c)
  \/ \E s \in Sids : SrvStopSend(s)
  \/ SrvStopReply
  \/ SrvExit
  \/ EnvSignal
  \/ SrvSignal
  \/ \E s \in Sids : SrvSigTerminate(s)
  \/ SrvSigJoin
  \/ SrvSigExit
  \/ SrvEvent
  \/ \E s \in Sids : SessRx(s)
  \/ \E s \in Sids : SessRecv(s)
  \/ \E s \in Sids : SessNotified(s)

Spec == Init /\ [][Next]_vars


\* ------------------------------------------- sessions being killed
\* The daemon kept running and asked only to start sessions and to kill
\* them by sid; the clients of the sessions stay, are interrupted or vanish.
KillRequests ==
  {ReqNewSession} \cup {ReqKillSession(s, f) : s \in Sids, f \in BOOLEAN}

KillNext ==
  \/ \E c \in Conns, r \in KillRequests : ClientConnect(c, r)
  \/ \E c \in Conns : ClientRecvResponse(c)
  \/ \E c \in Conns : ClientSessionRecv(c)
  \/ \E c \in Conns : ClientSignal(c)
  \/ \E c \in Conns : ClientAbort(c)
  \/ \E c \in Conns : SrvNewSession(c)
  \/ \E c \in Conns : SrvKillSession(c)
  \/ SrvKillSend
  \/ SrvEvent
  \/ \E s \in Sids : SessRx(s)
  \/ \E s \in Sids : SessRecv(s)

\* a step of Server::run
KillServerStep ==
  \/ \E c \in Conns : SrvNewSession(c)
  \/ \E c \in Conns : SrvKillSession(c)
  \/ SrvKillSend
  \/ SrvEvent

\* Server::run can take a step: a request is waiting at the listener, an
\* event is waiting and no connection is, or the send to a session returns
KillServerReady ==
  \/ \E c \in Conns : Accepted(c) /\ Received(c).t \in {"NewSession", "KillSession"}
  \/ srv.pc = "select" /\ ~sig /\ listen = <<>> /\ events # <<>>
  \/ srv.pc = "kill" /\ TxReady(srv.sid)

\* a step of the Session::run of session s
KillSessionStep(s) == SessRx(s) \/ SessRecv(s)

\* the Session::run of session s can take a step: its queue or its socket
\* has something for it (and the event channel has room for what it emits)
KillSessionReady(s) ==
  /\ task[s].st = "run"
  /\ Len(events) < EventCap
  /\ \/ task[s].rx # <<>>
     \/ /\ IsAttached(task[s].ch)
        /\ conn[task[s].ch.inner].c2s # <<>> \/ ~conn[task[s].ch.inner].copen

\* KillServerReady and KillSessionReady are ENABLED of the steps
KillReadyIsEnabled ==
  /\ KillServerReady <=> ENABLED <<KillServerStep>>_vars
  /\ \A s \in Sids : KillSessionReady(s) <=> ENABLED <<KillSessionStep(s)>>_vars

\* the runtime polls the server task and every session task again and
\* again: weak fairness of the steps of each task, WF_vars(KillServerStep)
\* and WF_vars(KillSessionStep(s)), written out with the enabling conditions
KillSpec ==
  /\ Init
  /\ [][KillNext]_vars
  /\ ([]<>(~KillServerReady) \/ []<><<KillServerStep>>_vars)
  /\ \A s \in Sids :
       ([]<>(~KillSessionReady(s)) \/ []<><<KillSessionStep(s)>>_vars)

\* ------------------------------------------- aliases and listings
\* The daemon kept running and asked to start sessions, to alias them, to
\* attach to them by alias and to list them; the clients of the sessions
\* stay, detach or are interrupted.
AliasRequests ==
  {ReqNewSession, ReqListSessions}
    \cup {ReqAliasSession(s, a) : s \in Sids, a \in Aliases \ {NoAlias}}
    \cup {ReqAttachSessionByAlias(a) : a \in Aliases}

AliasNext ==
  \/ \E c \in Conns, r \in AliasRequests : ClientConnect(c, r)
  \/ \E c \in Conns : ClientRecvResponse(c)
  \/ \E c \in Conns : ClientSignal(c)
  \/ \E c \in Conns : PeerDetach(c)
  \/ \E c \in Conns : SrvNewSession(c)
  \/ \E c \in Conns : SrvAliasSession(c)
  \/ \E c \in Conns : SrvAttachByAlias(c)
  \/ SrvAttachSend
  \/ \E c \in Conns : SrvListSessions(c)
  \/ SrvEvent
  \/ \E s \in Sids : SessRx(s)
  \/ \E s \in Sids : SessRecv(s)

AliasSpec == Init /\ [][AliasNext]_vars

\* -------------------------------------------- a long-lived daemon
\* The daemon after n clients each started a session (sids 1..n) and went
\* away without a request (their connections are over and left out; the
\* tasks run on without a channel), session 1 having been given an alias of
\* a bytes; then clients ask for the list.
ListInit ==
  \E n \in 0..MaxList, a \in {0, 8, MaxAlias} :
    /\ n = 0 => a = 0
    /\ next_sid = n
    /\ sessions = [s \in 1..n |->
                     IF s = 1 THEN [NewHandle EXCEPT !.alias = [i \in 1..a |-> 119]]
                     ELSE NewHandle]
    /\ srv = SrvSelect
    /\ events = <<>>
    /\ listen = <<>>
    /\ sig = FALSE
    /\ sockfile = TRUE
    /\ task = [s \in 1..n |-> [NoTask EXCEPT !.st = "run"]]
    /\ conn = [c \in Conns |-> IdleConn]
    /\ hist = [alloc |-> [i \in 1..n |-> i],
               spawned |-> [s \in 1..n |-> 1],
               consumed |-> [s \in 1..n |-> 0],
               seen |-> [s \in 1..n |-> "none"],
               forced |-> [s \in 1..n |-> FALSE],
               scan |-> <<>>,
               stop |-> "none"]

ListNext ==
  \/ \E c \in Conns : ClientConnect(c, ReqListSessions)
  \/ \E c \in Conns : SrvListSessions(c)
  \/ \E c \in Conns : ClientRecvResponse(c)

ListSpec == ListInit /\ [][ListNext]_vars

\* ------------------------------------------ a DetachableChannel alone
\* The DetachableChannel of session task 1 with or without an inner channel
\* and a stored wakeup, every connection an open socket (the inner one, or
\* one offered to attach), and the calls of its methods in any order.  task[1].result is the Result of
\* the last attach, conn[c].handled says that c was offered.
ChanInit ==
  /\ next_sid = 1
  /\ sessions = [s \in {1} |-> NewHandle]
  /\ srv = SrvSelect
  /\ events = <<>>
  /\ listen = <<>>
  /\ sig = FALSE
  /\ sockfile = TRUE
  /\ hist = NoHist
  /\ \E i \in {NoConn} \cup Conns, p \in BOOLEAN :
       /\ task = [s \in Sids |->
                    IF s = 1 THEN [NoTask EXCEPT !.st = "run", !.ch = Detachable(i, FALSE, p)]
                    ELSE NoTask]
       /\ conn = [c \in Conns |->
                    [IdleConn EXCEPT !.copen = TRUE, !.sopen = TRUE,
                                     !.held = IF c = i THEN "session" ELSE "queue",
                                     !.hsid = 1, !.was_inner = (c = i)]]

\* DetachableChannel::attach(channel of c): a refused channel is shut down
ChanAttach(c) ==
  /\ conn[c].held = "queue"
  /\ LET r == Attach(task[1].ch, c) IN
       /\ task' = [task EXCEPT ![1].ch = r.ch,
                               ![1].result = IF r.ok THEN "ok" ELSE "err"]
       /\ conn' = IF r.ok
                  THEN [conn EXCEPT ![c].held = "session", ![c].handled = TRUE,
                                    ![c].was_inner = TRUE]
                  ELSE CloseS([conn EXCEPT ![c].handled = TRUE], c)
  /\ UNCHANGED <<next_sid, sessions, srv, events, listen, sig, sockfile, hist>>

\* DetachableChannel::detach
ChanDetach ==
  /\ ~task[1].ch.detaching
  /\ task' = [task EXCEPT ![1].ch = Detach(@)]
  /\ UNCHANGED <<next_sid, sessions, srv, events, listen, sig, sockfile, conn, hist>>

\* DetachableChannel::shutdown
ChanShutdown ==
  /\ IsAttached(task[1].ch)
  /\ task' = [task EXCEPT ![1].ch = Shutdown(@)]
  /\ conn' = CloseS(conn, task[1].ch.inner)
  /\ UNCHANGED <<next_sid, sessions, srv, events, listen, sig, sockfile, hist>>

ChanNext ==
  \/ \E c \in Conns : ChanAttach(c)
  \/ ChanDetach
  \/ ChanShutdown

ChanSpec == ChanInit /\ [][ChanNext]_vars

\* ---------------------------------------------- a signal under load
\* The daemon at the moment a SIGINT/SIGTERM is pending, after q + l clients
\* each started a session (sids 1..q+l, in this order): the first q clients
\* were then interrupted one after the other, sent their Terminate and
\* left, and their session tasks ended, while the main loop did not get to
\* its event arm; the other l clients are in their session loops.

\* a connection after Client::start_session, the NewSession arm and the
\* client's recv of the reply
LiveConn(c, sid) ==
  LET req == ChannelSend(NewBuf, 0, EncRequest(ReqNewSession))
      rsp == ChannelSend(ChannelRecv(NewBuf, req.out), 0, EncResponse(RspNewSession(sid)))
  IN [IdleConn EXCEPT !.req = ReqNewSession, !.cpc = "session", !.csid = sid,
                      !.cch = IntoDetachable(c),
                      !.cbuf = ChannelRecv(req.buf, rsp.out), !.cpos = req.pos,
                      !.copen = TRUE, !.sopen = TRUE,
                      !.sbuf = rsp.buf, !.spos = rsp.pos,
                      !.held = "session", !.hsid = sid, !.reply = "NewSession",
                      !.was_inner = TRUE, !.acc = "req", !.nrsp = 1]

\* the session task Session::spawn started on that connection
LiveTask(c) == [NoTask EXCEPT !.st = "run", !.ch = IntoDetachable(c)]

\* the connection after SessionClient::handle_signal and the exit of the
\* client, and after the session task received the request and terminated
DoneConn(c, sid) ==
  LET live == LiveConn(c, sid)
      term == ChannelSend(live.cbuf, live.cpos, EncSessionRequest(SReq("Terminate")))
      rsp == ChannelSend(ChannelRecv(live.sbuf, term.out), live.spos,
                         EncSessionResponse(SRspTerminated(FALSE)))
  IN [live EXCEPT !.cpc = "exit", !.status = "signal",
                  !.cbuf = term.buf, !.cpos = term.pos,
                  !.copen = FALSE, !.sopen = FALSE,
                  !.sbuf = rsp.buf, !.spos = rsp.pos, !.held = "closed"]

\* the session task after Session::terminate(Ok(()))
DoneTask(c) ==
  [NoTask EXCEPT !.st = "done", !.ch = Shutdown(Detach(IntoDetachable(c))),
                 !.result = "ok", !.got = "Terminate", !.cause = "client"]

SigInit ==
  \E q \in 0..EventCap, l \in 1..MaxLive :
    /\ next_sid = q + l
    /\ sessions = [s \in 1..(q + l) |-> NewHandle]
    /\ srv = SrvSelect
    /\ events = [i \in 1..q |-> Terminated(i, TRUE)]
    /\ listen = <<>>
    /\ sig = TRUE
    /\ sockfile = TRUE
    /\ task = [s \in 1..(q + l) |-> IF s <= q THEN DoneTask(s) ELSE LiveTask(s)]
    /\ conn = [c \in 1..(q + l) |-> IF c <= q THEN DoneConn(c, c) ELSE LiveConn(c, c)]
    /\ hist = [alloc |-> [i \in 1..(q + l) |-> i],
               spawned |-> [s \in 1..(q + l) |-> 1],
               consumed |-> [s \in 1..(q + l) |-> 0],
               seen |-> [s \in 1..(q + l) |-> "none"],
               forced |-> [s \in 1..(q + l) |-> FALSE],
               scan |-> <<>>,
               stop |-> "none"]

\* Server::run takes its signal arm; the session tasks run beside it
SigNext ==
  \/ SrvSignal
  \/ \E s \in DOMAIN task : SrvSigTerminate(s)
  \/ SrvSigJoin
  \/ SrvSigExit
  \/ \E s \in DOMAIN task : SessRx(s)

SigSpec == SigInit /\ [][SigNext]_vars

\* ---------------------------------------------- kill requests under load
\* The daemon after q + 1 clients each started a session: the first q were
\* interrupted, sent their Terminate and left, and their tasks ended with
\* their Terminated events queued; the client of session q + 1 sits in its
\* session loop.  MaxKill more clients are about to ask for the end of
\* session q + 1.
LoadInit ==
  \E q \in 0..EventCap :
    /\ next_sid = q + 1
    /\ sessions = [s \in 1..(q + 1) |-> NewHandle]
    /\ srv = SrvSelect
    /\ events = [i \in 1..q |-> Terminated(i, TRUE)]
    /\ listen = <<>>
    /\ sig = FALSE
    /\ sockfile = TRUE
    /\ task = [s \in 1..(q + 1) |-> IF s <= q THEN DoneTask(s) ELSE LiveTask(s)]
    /\ conn = [c \in 1..(q + 1 + MaxKill) |->
                 IF c <= q THEN DoneConn(c, c)
                 ELSE IF c = q + 1 THEN LiveConn(c, c) ELSE IdleConn]
    /\ hist = [alloc |-> [i \in 1..(q + 1) |-> i],
               spawned |-> [s \in 1..(q + 1) |-> 1],
               consumed |-> [s \in 1..(q + 1) |-> 0],
               seen |-> [s \in 1..(q + 1) |-> "none"],
               forced |-> [s \in 1..(q + 1) |-> FALSE],
               scan |-> <<>>,
               stop |-> "none"]

\* hxc --kill for the session that is still running
LoadConnect(c, force) ==
  /\ \A d \in DOMAIN conn : d < c => conn[d].cpc # "idle"
  /\ ClientConnect(c, ReqKillSession(Cardinality(DOMAIN task), force))

\* Session::run, the arm of rx.recv() on a termination request while the
\* queue of the server's events is full: the request is taken from rx,
\* terminate answers the client, shuts the channel down and then waits in
\* send_event
SessRxBlocked(s) ==
  /\ task[s].st = "run"
  /\ task[s].rx # <<>>
  /\ Head(task[s].rx).t = "RequestTermination"
  /\ Len(events) = EventCap
  /\ LET ev == Head(task[s].rx)
         t == Terminate(~ev.forced, conn, task[s].ch)
     IN /\ task' = [task EXCEPT ![s] =
                      [@ EXCEPT !.st = "sending", !.rx = Tail(@), !.ch = t.ch,
                                !.result = IF ev.forced THEN "err" ELSE "ok",
                                !.cause = "request"]]
        /\ conn' = t.cn
  /\ UNCHANGED <<next_sid, sessions, srv, events, listen, sig, sockfile, hist>>

\* the send_event of a waiting terminate returns, and Session::run with it
SessSendEvent(s) ==
  /\ task[s].st = "sending"
  /\ Finish(s, task[s].result = "ok", task[s].cause, task[s],
            [cn |-> conn, ch |-> task[s].ch])
  /\ UNCHANGED <<next_sid, sessions, srv, listen, sig, sockfile, hist>>

LoadNext ==
  \/ \E c \in DOMAIN conn, f \in BOOLEAN : LoadConnect(c, f)
  \/ \E c \in DOMAIN conn : ClientRecvResponse(c)
  \/ \E c \in DOMAIN conn : SrvKillSession(c)
  \/ SrvKillSend
  \/ SrvEvent
  \/ \E s \in DOMAIN task : SessRx(s)
  \/ \E s \in DOMAIN task : SessRxBlocked(s)
  \/ \E s \in DOMAIN task : SessSendEvent(s)

LoadSpec == LoadInit /\ [][LoadNext]_vars

\* ------------------------------------------------------------- properties
Range(f) == {f[i] : i \in DOMAIN f}
InFlight(c) == Range(conn[c].c2s) \cup Range(conn[c].s2c)

\* bincode::serialize of the message a datagram was sent for
Serialized(d) ==
  CASE d.ty = "Request" -> EncRequest(d.msg)
    [] d.ty = "Response" -> EncResponse(d.msg)
    [] d.ty = "SessionRequest" -> EncSessionRequest(d.msg)
    [] d.ty = "SessionResponse" -> EncSessionResponse(d.msg)

\* the server's loop is between two events and no session event is pending
Quiescent == srv.pc = "select" /\ events = <<>>

\* the sockets whose server end session s holds as its inner channel
HeldBy(s) ==
  {c \in Conns : conn[c].held = "session" /\ conn[c].hsid = s /\ conn[c].sopen}

\* C1: the session ids the NewSession arm hands out are strictly increasing,
\* start at 1, are never 0, and no id is given to two sessions, also when a
\* reply could not be sent and the id was spent without a session.
C1_SidsStrictlyIncreasing ==
  /\ \A i \in 1..Len(hist.alloc) : hist.alloc[i] # 0
  /\ hist.alloc # <<>> => hist.alloc[1] = 1
  /\ \A i, j \in 1..Len(hist.alloc) : i < j => hist.alloc[i] < hist.alloc[j]
  /\ \A s \in Sids : hist.spawned[s] <= 1
  /\ DOMAIN sessions \subseteq Range(hist.alloc)

\* C1 witness: two ids were handed out, the first one for a reply that could
\* not be sent (no session), the second one for a session
C1_Witness ==
  /\ hist.alloc = <<1, 2>>
  /\ hist.spawned[1] = 0
  /\ hist.spawned[2] = 1

\* C2: a session task holds at most one client socket: the sockets whose
\* server end it holds are exactly the inner channel of its detachable
\* channel, and no socket is held by two sessions.
C2_AtMostOneAttached ==
  \A s \in Sids :
    /\ Cardinality(HeldBy(s)) <= 1
    /\ task[s].st = "run" =>
         HeldBy(s) = (IF IsAttached(task[s].ch) THEN {task[s].ch.inner} ELSE {})
    /\ task[s].st # "run" => HeldBy(s) = {}
    /\ Cardinality({c \in Conns : /\ conn[c].cpc = "session"
                                  /\ conn[c].csid = s
                                  /\ conn[c].copen}) <= 1

\* C2 witness: a session that still holds its first client's socket has
\* taken the AttachRequest of a second client, which the server had answered
\* NewSession, and refused it
C2_Witness ==
  \E s \in Sids, c1, c2 \in Conns :
    /\ c1 # c2
    /\ task[s].st = "run"
    /\ task[s].ch.inner = c1
    /\ conn[c2].req = ReqAttachSession(s)
    /\ conn[c2].reply = "NewSession"
    /\ conn[c2].handled
    /\ conn[c2].held = "closed"

\* what the peer's recv makes of a datagram
Deserialized(d) ==
  CASE d.ty = "Request" -> DecRequest(d.bytes)
    [] d.ty = "Response" -> DecResponse(d.bytes)
    [] d.ty = "SessionRequest" -> DecSessionRequest(d.bytes)
    [] d.ty = "SessionResponse" -> DecSessionResponse(d.bytes)

\* C3: every datagram a Channel::send emits holds exactly the serialisation
\* of the message it was given, and the peer's recv decodes that message,
\* for the first send on a channel and for every later one.
C3_DatagramIsSerialization ==
  \A c \in Conns : \A d \in InFlight(c) :
    /\ d.bytes = Serialized(d)
    /\ Deserialized(d) = DecOk(d.msg)

\* C4: a recv that sees the peer close fails ("unexpected disconnect") when
\* detaching was false, returns None only when detaching was true, and
\* leaves no inner channel.
C4_UnexpectedDisconnect ==
  \A s \in Sids :
    task[s].obs.out # "none" =>
      /\ ~task[s].obs.det => task[s].obs.out = "Err"
      /\ task[s].obs.out = "None" => task[s].obs.det
      /\ task[s].obs.left = NoConn

\* C5: a session whose client closed its socket without a Detach has
\* terminated with an error reason, and its Terminated{expected=false} is on
\* its way to the server or was consumed and the session removed.
C5_UnexpectedCloseTerminates ==
  \A s \in Sids :
    (task[s].obs.out # "none" /\ ~task[s].obs.det) =>
      /\ task[s].st = "done"
      /\ task[s].result = "err"
      /\ \/ \E i \in 1..Len(events) : events[i] = Terminated(s, FALSE)
         \/ hist.consumed[s] = 1 /\ s \notin DOMAIN sessions

\* C6: the Detach a client sends does not end the session: a session whose
\* last request was sent as Detach has not terminated on that request.
C6_DetachKeepsSession ==
  \A s \in Sids :
    task[s].got = "Detach" => task[s].cause \notin {"client", "error"}

\* C7: once the session task has taken the AttachRequest of a socket that
\* the server answered NewSession(sid) (the session was detached), that
\* socket is, or has been, the inner channel of the session.
C7_ReattachInstalls ==
  \A c \in Conns :
    (conn[c].req.t = "AttachSession" /\ conn[c].reply = "NewSession" /\ conn[c].handled)
      => conn[c].was_inner

\* C8: an AttachSession for a sid that is absent, or present and not
\* detached, is answered Err, the offered connection is shut down, no
\* AttachRequest is sent and the registry is unchanged.
C8_AttachRefused ==
  [][\A c \in Conns :
       (/\ Accepted(c)
        /\ Received(c).t = "AttachSession"
        /\ \/ Received(c).sid \notin DOMAIN sessions
           \/ ~sessions[Received(c).sid].detached
        /\ listen' = Tail(listen))
       => /\ conn'[c].reply = "Err"
          /\ ~conn'[c].sopen
          /\ conn'[c].held = "closed"
          /\ sessions' = sessions
          /\ task' = task
          /\ srv' = srv]_vars

\* C8 witness: one attach was refused for a session that is registered and
\* occupied, another one for a sid that is not registered
C8_Witness ==
  \E c1, c2 \in Conns :
    /\ conn[c1].req.t = "AttachSession" /\ conn[c1].reply = "Err"
    /\ conn[c1].req.sid \in DOMAIN sessions
    /\ ~sessions[conn[c1].req.sid].detached
    /\ conn[c2].req.t = "AttachSession" /\ conn[c2].reply = "Err"
    /\ conn[c2].req.sid \notin DOMAIN sessions

\* C9: the server's loop consumes exactly one Terminated event for every
\* session: never two, and one by the time the daemon has exited.
C9_ExactlyOneTerminated ==
  \A s \in Sids :
    /\ hist.consumed[s] <= 1
    /\ (hist.spawned[s] > 0 /\ srv.pc = "exited") => hist.consumed[s] = 1

\* C10: at a quiescent point of the server a sid is a key of the registry
\* if and only if its session task is still running.
C10_RegistryIsLiveTasks ==
  Quiescent => DOMAIN sessions = {s \in Sids : task[s].st = "run"}

\* C10 witness: quiescent, one session ended and was removed, another one
\* is running and registered
C10_Witness ==
  /\ Quiescent
  /\ \E s1, s2 \in Sids :
       /\ task[s1].st = "done" /\ s1 \notin DOMAIN sessions /\ hist.consumed[s1] = 1
       /\ task[s2].st = "run" /\ s2 \in DOMAIN sessions

\* handle_connection has returned for connection c
Handled(c) == conn[c].acc # "no" /\ srv.c # c

\* the connection went into session phase: one NewSession reply, and the
\* socket was given to a session task (which holds it, or has it in its
\* queue, or has closed it since)
SessionPhase(c) ==
  /\ conn[c].reply = "NewSession"
  /\ conn[c].held \in {"session", "queue", "closed"}

\* C11 as stated: every accepted connection that handle_connection is done
\* with was sent exactly one control response, and is closed unless it went
\* into session phase.
C11_OneResponseThenClosed ==
  \A c \in Conns :
    Handled(c) =>
      /\ conn[c].nrsp = 1
      /\ conn[c].held = "closed" \/ SessionPhase(c)

\* C11 amended: a connection on which a request was received was sent
\* exactly one control response, and is closed unless it went into session
\* phase; a connection whose request could not be received was sent none
\* and is closed.
C11_OneResponsePerRequest ==
  \A c \in Conns :
    /\ conn[c].nrsp <= 1
    /\ Handled(c) /\ conn[c].acc = "req" =>
         /\ conn[c].nrsp = 1
         /\ conn[c].held = "closed" \/ SessionPhase(c)
    /\ conn[c].acc = "err" =>
         /\ conn[c].nrsp = 0
         /\ conn[c].held = "closed"

\* C11 witness: one connection answered and closed, one in session phase
\* and held by its session, one shut down without a request
C11_Witness ==
  \E c1, c2, c3 \in Conns :
    /\ Handled(c1) /\ conn[c1].reply = "Ok" /\ conn[c1].held = "closed"
    /\ Handled(c2) /\ conn[c2].reply = "NewSession" /\ conn[c2].held = "session"
    /\ conn[c3].acc = "err"

ClientInSession(c) == conn[c].cpc = "session" /\ IsAttached(conn[c].cch)

\* C13: when the daemon has exited on a StopServer{force=true}, every
\* session task has processed its termination request, and every client
\* still in its session loop has Terminated(true) to receive next; a client
\* that left its loop on a message of the server left it with status 1.
C13_ForcedStopReachesClients ==
  (srv.pc = "exited" /\ hist.stop = "forced") =>
    /\ \A s \in Sids : task[s].st # "cancelled"
    /\ \A c \in Conns :
         /\ (ClientInSession(c) /\ conn[c].was_inner) =>
              /\ conn[c].s2c # <<>>
              /\ DecSessionResponse(Head(conn[c].s2c).bytes) = DecOk(SRspTerminated(TRUE))
         /\ (conn[c].was_inner /\ conn[c].cpc = "exit") =>
              conn[c].status \in {"1", "signal", "detached", "killed"}

\* C14: the graceful shutdown on a signal completes: a session task that
\* handle_signal waits for in join() can still deliver its Terminated event
\* (nothing reads the event channel while handle_signal runs, so a task
\* that finds the channel full is never joined).
C14_SignalShutdownCompletes ==
  (srv.pc = "sig_join" /\ task[srv.sid].st = "run") => Len(events) < EventCap

\* C15: the main loop takes a connection only when no signal is pending,
\* and consumes a session event only when no signal is pending and no
\* connection is waiting.
C15_BiasedSelect ==
  [][/\ (srv.pc = "select" /\ listen # <<>> /\ listen' = Tail(listen)) => ~sig
     /\ (events # <<>> /\ events' = Tail(events)) => (~sig /\ listen = <<>>)]_vars

\* C15 witness: the signal arm was taken while a connection and a session
\* event were waiting
C15_Witness ==
  /\ srv.pc = "sig_term"
  /\ listen # <<>>
  /\ events # <<>>

\* the sessions a kill request names
KillTargets(r) ==
  IF r.t = "KillSession" THEN {r.sid} \cap DOMAIN sessions
  ELSE {s \in DOMAIN sessions : sessions[s].alias = r.alias}

\* C16: the step that replies to a KillSession or KillSessionByAlias
\* replies Ok exactly when it has put RequestTermination{forced=force} into
\* the queue of a session the request names, and Err otherwise; no step of
\* the kill arms changes the registry.
C16_KillReply ==
  [][\A c \in Conns :
       conn[c].req.t \in {"KillSession", "KillSessionByAlias"} =>
         /\ conn'[c].nrsp = conn[c].nrsp + 1 =>
              /\ conn'[c].reply \in {"Ok", "Err"}
              /\ conn'[c].reply = "Ok" <=>
                   \E s \in KillTargets(conn[c].req) :
                     /\ task[s].st = "run"
                     /\ task'[s].rx =
                          Append(task[s].rx, RequestTermination(conn[c].req.force))
              /\ sessions' = sessions
         /\ conn'[c].acc # conn[c].acc => sessions' = sessions]_vars

\* C16 witness: a kill by alias was answered Ok, and a later kill of the
\* same session, whose task had ended by then, was answered Err
C16_Witness ==
  \E c0, c1, c2 \in Conns :
    /\ c0 < c1 /\ c1 < c2
    /\ conn[c0].req.t = "NewSession" /\ conn[c0].hsid = conn[c2].req.sid
    /\ conn[c1].req.t = "KillSessionByAlias" /\ conn[c1].reply = "Ok"
    /\ conn[c2].req.t = "KillSession" /\ conn[c2].reply = "Err"
    /\ conn[c2].req.sid \in DOMAIN sessions

\* the server has replied Ok to a KillSession for sid s
KillAnswered(s) ==
  \E c \in Conns : conn[c].req.t = "KillSession" /\ conn[c].req.sid = s
                   /\ conn[c].reply = "Ok"

CauseOf(s) ==
  CASE task'[s].cause = "request" ->
         IF task[s].rx # <<>> /\ Head(task[s].rx).t = "RequestTermination"
         THEN IF Head(task[s].rx).forced THEN "forced request" ELSE "request"
         ELSE "none"
    [] task'[s].cause = "client" ->
         IF /\ IsAttached(task[s].ch)
            /\ conn[task[s].ch.inner].c2s # <<>>
            /\ DecSessionRequest(Head(conn[task[s].ch.inner].c2s).bytes) =
                 DecOk(SReq("Terminate"))
         THEN "client terminate" ELSE "none"
    [] task'[s].cause = "error" ->
         IF /\ IsAttached(task[s].ch)
            /\ \/ conn[task[s].ch.inner].c2s = <<>>
               \/ ~DecSessionRequest(Head(conn[task[s].ch.inner].c2s).bytes).ok
         THEN "failed recv" ELSE "none"
    [] OTHER -> "none"

\* C18: in every step that ends a session task the event queued for the
\* server is Terminated{expected} and the response handed to the channel of
\* an attached client is Terminated(forced = ~expected), expected being true
\* for RequestTermination{forced=false} and a client Terminate, false for
\* RequestTermination{forced=true} and a failed client recv.
C18_TerminatedFlags ==
  [][\A s \in Sids :
       (task[s].st = "run" /\ task'[s].st = "done") =>
         LET cause == CauseOf(s)
             expected == cause \in {"request", "client terminate"}
             c == task[s].ch.inner
         IN /\ cause # "none"
            /\ events' = Append(events, Terminated(s, expected))
            /\ (c # NoConn /\ conn[c].copen) =>
                 /\ Len(conn'[c].s2c) = Len(conn[c].s2c) + 1
                 /\ conn'[c].s2c[Len(conn'[c].s2c)].msg = SRspTerminated(~expected)
            /\ task'[s].result = IF expected THEN "ok" ELSE "err"]_vars

\* C18 witness: one task ended on a forced request with its client
\* attached, another on a recv that failed
C18_Witness ==
  \E s, t \in Sids :
    /\ task[s].st = "done" /\ task[s].cause = "request" /\ task[s].result = "err"
    /\ \E c \in Conns : /\ conn[c].hsid = s
                        /\ conn[c].s2c # <<>>
                        /\ conn[c].s2c[Len(conn[c].s2c)].msg = SRspTerminated(TRUE)
    /\ task[t].st = "done" /\ task[t].cause = "error" /\ task[t].result = "err"

\* C19: a client in its session loop that receives the response of a
\* session ended by a termination request decodes Terminated(forced) as the
\* session sent it and leaves with status 1 if forced, 0 if not.
C19_ClientExitStatus ==
  [][\A c \in Conns :
       (/\ conn[c].cpc = "session"
        /\ conn[c].s2c # <<>>
        /\ Head(conn[c].s2c).msg.t = "Terminated"
        /\ task[conn[c].hsid].cause = "request"
        /\ conn'[c].s2c = Tail(conn[c].s2c))
         => /\ DecSessionResponse(Head(conn[c].s2c).bytes) =
                 DecOk(Head(conn[c].s2c).msg)
            /\ conn'[c].cpc = "exit"
            /\ conn'[c].status = IF Head(conn[c].s2c).msg.forced THEN "1" ELSE "0"]_vars

\* C20: whenever the server is about to evaluate an attach request, the
\* detached flag of every session in the registry is true exactly when the
\* session task has no inner channel.
C20_DetachedIffNoChannel ==
  \A c \in Conns :
    (Accepted(c) /\ Received(c).t = "AttachSession") =>
      \A s \in DOMAIN sessions :
        sessions[s].detached <=> ~IsAttached(task[s].ch)

\* C21: attach(ch) succeeds exactly when no inner channel is present; then
\* ch is the inner channel and the wakeup of notify_one is issued; otherwise
\* ch is shut down, the call fails, and the inner channel, its socket and
\* the detaching flag are as before.
C21_AttachIffDetached ==
  [][\A c \in Conns :
       (~conn[c].handled /\ conn'[c].handled) =>
         LET ch == task[1].ch
             ch2 == task'[1].ch
         IN IF ch.inner = NoConn
            THEN /\ task'[1].result = "ok"
                 /\ ch2.inner = c
                 /\ ch2.permit
                 /\ ch2.detaching = ch.detaching
                 /\ conn'[c].sopen
            ELSE /\ task'[1].result = "err"
                 /\ ~conn'[c].sopen
                 /\ ch2.inner = ch.inner
                 /\ ch2.detaching = ch.detaching
                 /\ conn'[ch.inner].sopen = conn[ch.inner].sopen]_vars

\* C21 witness: one offered channel was installed in the empty channel and
\* a later one was refused and shut down, the first still being the inner
C21_Witness ==
  \E c, d \in Conns :
    /\ c # d
    /\ task[1].ch.inner = c /\ conn[c].handled /\ conn[c].sopen
    /\ conn[d].handled /\ ~conn[d].sopen /\ ~conn[d].was_inner
    /\ task[1].result = "err"

\* C22: a session task with an attached client that takes AttachRequest(ch)
\* from its queue shuts ch down; its channel (inner, detaching, wakeup), the
\* socket of its client and the event queue are as before and the task
\* keeps running.
C22_OccupiedAttachRefused ==
  [][\A s \in Sids :
       (/\ task[s].st = "run"
        /\ task[s].rx # <<>>
        /\ Head(task[s].rx).t = "AttachRequest"
        /\ IsAttached(task[s].ch)
        /\ ~conn[Head(task[s].rx).c].handled
        /\ conn'[Head(task[s].rx).c].handled)
         => /\ ~conn'[Head(task[s].rx).c].sopen
            /\ task'[s].ch = task[s].ch
            /\ conn'[task[s].ch.inner] = conn[task[s].ch.inner]
            /\ task'[s].st = "run"
            /\ task'[s].rx = Tail(task[s].rx)
            /\ events' = events]_vars

\* C22 witness: a session that still holds the socket of its client has
\* refused an offered socket and runs on
C22_Witness ==
  \E s \in Sids, c, d \in Conns :
    /\ c # d
    /\ task[s].st = "run" /\ task[s].ch.inner = c /\ conn[c].sopen
    /\ conn[d].hsid = s /\ conn[d].handled /\ ~conn[d].was_inner /\ ~conn[d].sopen

\* position of sid s in what an iteration yielded (0: not in it)
PosIn(scan, s) ==
  IF \E i \in 1..Len(scan) : scan[i].sid = s
  THEN CHOOSE i \in 1..Len(scan) : scan[i].sid = s
  ELSE 0

\* C23: the step that handles AttachSessionByAlias(alias) iterates the
\* registry once; the first session of the iteration whose alias is alias
\* decides: not detached, the reply is Err (whatever comes later in the
\* iteration); detached, the reply is NewSession of its sid and the attach
\* goes to it; no match, the reply is Err.  The registry and every queue are
\* untouched by that step, and the step that delivers the AttachRequest puts
\* one request into the queue of that session and into no other.
C23_FirstAliasMatchDecides ==
  [][\A c \in Conns :
       /\ (Accepted(c) /\ Received(c).t = "AttachSessionByAlias"
             /\ conn'[c].acc # conn[c].acc) =>
            LET scan == hist'.scan
                hits == {s \in DOMAIN sessions : sessions[s].alias = Received(c).alias}
                first == {s \in hits : \A t \in hits : PosIn(scan, s) <= PosIn(scan, t)}
            IN /\ Len(scan) = Cardinality(DOMAIN sessions)
               /\ \A s \in DOMAIN sessions :
                    /\ PosIn(scan, s) > 0
                    /\ scan[PosIn(scan, s)].alias = sessions[s].alias
                    /\ scan[PosIn(scan, s)].detached = sessions[s].detached
               /\ sessions' = sessions
               /\ task' = task
               /\ hits = {} => (conn'[c].reply = "Err" /\ ~conn'[c].sopen /\ srv' = srv)
               /\ \A m \in first :
                    IF ~sessions[m].detached
                    THEN conn'[c].reply = "Err" /\ ~conn'[c].sopen /\ srv' = srv
                    ELSE /\ conn'[c].reply = "NewSession"
                         /\ conn'[c].s2c = <<>> => ~conn'[c].sopen /\ srv' = srv
                         /\ conn'[c].s2c # <<>> =>
                              /\ conn'[c].s2c[Len(conn'[c].s2c)].msg = RspNewSession(m)
                              /\ srv'.pc = "attach" /\ srv'.sid = m /\ srv'.c = c
       /\ (srv.pc = "attach" /\ srv.c = c /\ srv'.pc # "attach"
             /\ conn[c].req.t = "AttachSessionByAlias") =>
            /\ \A s \in DOMAIN task : s # srv.sid => task'[s].rx = task[s].rx
            /\ \/ task'[srv.sid].rx = Append(task[srv.sid].rx, AttachRequest(c))
               \/ task'[srv.sid].rx = task[srv.sid].rx /\ ~conn'[c].sopen]_vars

\* C23 witness: an attach by alias was answered Err because the first
\* session of the iteration with that alias was occupied, a later one with
\* the same alias being detached
C23_Witness ==
  \E c \in Conns, i, j \in 1..Len(hist.scan) :
    /\ conn[c].req.t = "AttachSessionByAlias" /\ conn[c].reply = "Err"
    /\ \A d \in Conns : d # c => conn[d].req.t # "AttachSessionByAlias"
    /\ i < j
    /\ hist.scan[i].alias = conn[c].req.alias /\ ~hist.scan[i].detached
    /\ hist.scan[j].alias = conn[c].req.alias /\ hist.scan[j].detached

\* C24: the step that handles AliasSession{sid, alias} replies Ok and sets
\* the alias of sid when sid is in the registry, replies Err otherwise; the
\* keys of the registry, every detached flag and timestamp, the alias of
\* every other session and the queue of every session are as before, and
\* the connection is closed.
C24_AliasFrame ==
  [][\A c \in Conns :
       (Accepted(c) /\ Received(c).t = "AliasSession" /\ conn'[c].acc # conn[c].acc) =>
         LET sid == Received(c).sid
             known == sid \in DOMAIN sessions
         IN /\ conn'[c].reply = IF known THEN "Ok" ELSE "Err"
            /\ conn'[c].s2c[Len(conn'[c].s2c)].msg = IF known THEN RspOk ELSE RspErr
            /\ ~conn'[c].sopen
            /\ DOMAIN sessions' = DOMAIN sessions
            /\ \A s \in DOMAIN sessions :
                 /\ sessions'[s].detached = sessions[s].detached
                 /\ sessions'[s].timestamp = sessions[s].timestamp
                 /\ sessions'[s].alias =
                      IF s = sid THEN Received(c).alias ELSE sessions[s].alias
            /\ task' = task
            /\ events' = events]_vars

\* C24 witness: one of two sessions was given an alias and the request was
\* answered Ok, the other session has the alias it had
C24_Witness ==
  \E c \in Conns, t \in DOMAIN sessions :
    /\ conn[c].req.t = "AliasSession" /\ conn[c].reply = "Ok"
    /\ conn[c].req.sid \in DOMAIN sessions
    /\ sessions[conn[c].req.sid].alias = conn[c].req.alias
    /\ conn[c].req.alias # NoAlias
    /\ t # conn[c].req.sid /\ sessions[t].alias = NoAlias

\* C25: the step that handles ListSessions sends a ListSessions response
\* whose list has, for every sid of the registry, exactly one triple, made
\* of the sid, the timestamp and the alias of its handle, and nothing else;
\* the datagram deserializes to that response; the registry is as before.
C25_ListIsRegistry ==
  [][\A c \in Conns :
       (Accepted(c) /\ Received(c).t = "ListSessions" /\ conn'[c].acc # conn[c].acc) =>
         /\ sessions' = sessions
         /\ conn'[c].reply = "ListSessions"
         /\ conn'[c].s2c # <<>>
         /\ LET d == conn'[c].s2c[Len(conn'[c].s2c)]
                list == d.msg.list
            IN /\ d.msg.t = "ListSessions"
               /\ Len(list) = Cardinality(DOMAIN sessions)
               /\ \A s \in DOMAIN sessions :
                    \E i \in 1..Len(list) :
                      list[i] = Triple(s, sessions[s].timestamp, sessions[s].alias)
               /\ DecResponse(d.bytes) = DecOk(d.msg)]_vars

\* C26: whatever the number of sessions and their aliases, the ListSessions
\* response fits in the buffer of the channel: the send succeeds and the
\* client that asked receives the list and leaves with status 0.
C26_ListFits ==
  \A c \in Conns :
    /\ (conn[c].req.t = "ListSessions" /\ conn[c].reply = "ListSessions") =>
         conn[c].spos <= BufCap /\ (conn[c].s2c # <<>> \/ conn[c].cpc = "exit")
    /\ (conn[c].req.t = "ListSessions" /\ conn[c].cpc = "exit") => conn[c].status = "0"


\* C27: a recv of a session task on a channel without inner channel does not
\* complete before a peer is attached: no step takes the wakeup of
\* attach_notify while the channel has no inner channel, so the permit that
\* an earlier attach stored never ends a later recv with None.
C27_RecvAwaitsAttach ==
  [][\A s \in Sids :
       (task[s].st = "run" /\ ~IsAttached(task[s].ch)) =>
         (task'[s].ch.permit = task[s].ch.permit \/ IsAttached(task'[s].ch))]_vars


\* C28: whenever handle_event consumes Terminated{expected} of a session,
\* the join of the session's task yields Ok when expected is true and an
\* error when it is false: neither assert!(info.is_ok()) nor
\* info.unwrap_err() fails.
C28_JoinMatchesExpected ==
  [][\A s \in Sids :
       (hist'.consumed[s] # hist.consumed[s]) =>
         LET ev == Head(events) IN
         /\ ev.sid = s /\ ev.kind = "Terminated"
         /\ task[s].st = "done"
         /\ ev.expected <=> task[s].result = "ok"
         /\ ~ev.expected <=> task[s].result = "err"]_vars

\* C28 witness: the server has handled Terminated{expected=true} of one
\* session and Terminated{expected=false} of another, and runs on
C28_Witness ==
  \E s, t \in Sids :
    /\ hist.consumed[s] = 1 /\ hist.seen[s] = "expected" /\ task[s].result = "ok"
    /\ hist.consumed[t] = 1 /\ hist.seen[t] = "unexpected" /\ task[t].result = "err"
    /\ {s, t} \cap DOMAIN sessions = {}
    /\ srv.pc = "select"


\* C29: a client in its session loop that gets SIGINT or SIGTERM sends
\* SessionRequest::Terminate and its loop returns status 0; the session
\* task that receives this datagram decodes Terminate, ends with result
\* Ok and queues Terminated{expected=true} for the server.
C29_SignalTerminates ==
  [][/\ \A c \in Conns :
          (ClientSignal(c) /\ Len(conn'[c].c2s) > Len(conn[c].c2s)) =>
            /\ conn'[c].c2s[Len(conn'[c].c2s)].msg = SReq("Terminate")
            /\ conn'[c].status = "0"
     /\ \A s \in Sids :
          (/\ SessRecv(s)
           /\ conn[task[s].ch.inner].c2s # <<>>
           /\ Head(conn[task[s].ch.inner].c2s).msg = SReq("Terminate")) =>
            /\ DecSessionRequest(Head(conn[task[s].ch.inner].c2s).bytes)
                 = DecOk(SReq("Terminate"))
            /\ task'[s].st = "done" /\ task'[s].result = "ok"
            /\ events' = Append(events, Terminated(s, TRUE))]_vars


\* C30: every event that handle_event consumes names a sid that is in the
\* registry at that moment, so the unwrap of sessions.remove and of
\* sessions.get_mut cannot fail; a ClientDetached is never consumed once the
\* Terminated of the same sid was, and no event is consumed from an empty
\* (drained) registry.
C30_EventsNameRegistered ==
  [][SrvEvent =>
       LET ev == Head(events) IN
       /\ ev.sid \in DOMAIN sessions
       /\ hist.stop = "none"
       /\ ev.kind = "ClientDetached" => hist.consumed[ev.sid] = 0
       /\ srv'.pc = "select"]_vars

\* C30 witness: the ClientDetached of a session was consumed (its handle is
\* marked detached), its Terminated is the next event in the queue, and the
\* Terminated of another session was consumed before
C30_Witness ==
  \E s \in DOMAIN sessions, t \in Sids :
    /\ srv.pc = "select"
    /\ sessions[s].detached
    /\ events # <<>> /\ Head(events).sid = s /\ Head(events).kind = "Terminated"
    /\ t # s /\ hist.consumed[t] = 1 /\ t \notin DOMAIN sessions


\* the server waits in tx.send for room in the queue of session s
ServerWaitsFor(s) ==
  srv.pc \in {"kill", "attach"} /\ srv.sid = s /\ ~TxReady(s)

\* the task of session s waits in send_event for room in the server's queue
SessionWaits(s) == task[s].st = "sending" /\ Len(events) = EventCap

\* C31: the server never waits for room in the queue of a session whose
\* task waits for room in the queue of the server's events.
C31_NoChannelDeadlock ==
  \A s \in DOMAIN task : ~(ServerWaitsFor(s) /\ SessionWaits(s))


\* C32: a socket on which the server answered an attach request with
\* NewSession(sid) becomes the inner channel of the session: while the
\* daemon runs and the client holds its end it is not shut down or dropped
\* without having been installed by the session task.
C32_AnsweredAttachInstalled ==
  \A c \in Conns :
    (/\ ServerAlive
     /\ conn[c].copen
     /\ conn[c].req.t \in {"AttachSession", "AttachSessionByAlias"}
     /\ conn[c].reply = "NewSession"
     /\ conn[c].held = "closed")
      => conn[c].was_inner


\* C33: a client in its session loop is never left without its inner
\* channel: when the server's end of its socket is shut down or dropped,
\* the recv of SessionClient::run ends the loop with a status or an error,
\* it does not go on to wait for an attach that nothing on the client's
\* side ever makes.
C33_ClientLeavesClosedSocket ==
  \A c \in Conns :
    (conn[c].cpc = "session" /\ ~conn[c].sopen) => IsAttached(conn[c].cch)

====
